---------------------------- MODULE Spec2Model ----------------------------
(***************************************************************************)
(* Model of the two UV-sphere generators of the repository:                *)
(*   src/public/model/sphere/sphere.py  (function sphere with a center)    *)
(*   src/res/model/sphere.py            (top-level script, no center)      *)
(* Python floats are modelled as IEEE-754 binary64 values (sign, 53-bit    *)
(* significand, exponent) with round-to-nearest-even arithmetic, so that   *)
(* rounding, signed zeros and the inexactness of math.sin / math.cos at    *)
(* multiples of pi are part of the model.                                  *)
(***************************************************************************)
EXTENDS Integers, Sequences, FiniteSets

(***************************************************************************)
(* Natural numbers of arbitrary size: little-endian sequences of limbs.    *)
(* (A binary64 significand does not fit the model checker's integers.)     *)
(***************************************************************************)
LimbBits == 13

LimbBase == 2 ^ LimbBits

MantBits == 53

MaxOf(a, b) == IF a >= b THEN a ELSE b

MinOf(a, b) == IF a <= b THEN a ELSE b

AbsOf(n) == IF n < 0 THEN -n ELSE n

RECURSIVE BnNorm(_)
BnNorm(a) ==
    IF a = <<>> THEN a
    ELSE IF a[Len(a)] = 0 THEN BnNorm(SubSeq(a, 1, Len(a) - 1))
    ELSE a

RECURSIVE BnFromNat(_)
BnFromNat(n) ==
    IF n = 0 THEN <<>> ELSE <<n % LimbBase>> \o BnFromNat(n \div LimbBase)

RECURSIVE BnToNat(_)
BnToNat(a) ==
    IF a = <<>> THEN 0 ELSE a[1] + LimbBase * BnToNat(Tail(a))

BnLimb(a, k) == IF k <= Len(a) THEN a[k] ELSE 0

RECURSIVE BnProp(_, _, _)
BnProp(cols, k, c) ==
    IF k > Len(cols) THEN BnFromNat(c)
    ELSE LET v == cols[k] + c
         IN  <<v % LimbBase>> \o BnProp(cols, k + 1, v \div LimbBase)

BnAdd(a, b) ==
    BnNorm(BnProp([k \in 1..MaxOf(Len(a), Len(b)) |-> BnLimb(a, k) + BnLimb(b, k)], 1, 0))

RECURSIVE BnSubFrom(_, _, _, _)
BnSubFrom(a, b, k, borrow) ==
    IF k > Len(a) THEN <<>>
    ELSE LET v == a[k] - BnLimb(b, k) - borrow
         IN  IF v < 0 THEN <<v + LimbBase>> \o BnSubFrom(a, b, k + 1, 1)
             ELSE <<v>> \o BnSubFrom(a, b, k + 1, 0)

BnSub(a, b) == BnNorm(BnSubFrom(a, b, 1, 0))

RECURSIVE BnLessFrom(_, _, _)
BnLessFrom(a, b, k) ==
    IF k = 0 THEN FALSE
    ELSE IF a[k] # b[k] THEN a[k] < b[k]
    ELSE BnLessFrom(a, b, k - 1)

BnLess(a, b) ==
    IF Len(a) # Len(b) THEN Len(a) < Len(b) ELSE BnLessFrom(a, b, Len(a))

BnMulSmall(a, n) == BnNorm(BnProp([k \in 1..Len(a) |-> a[k] * n], 1, 0))

RECURSIVE BnColumn(_, _, _, _)
BnColumn(a, b, k, i) ==
    IF i > MinOf(Len(a), k) THEN 0
    ELSE a[i] * b[k + 1 - i] + BnColumn(a, b, k, i + 1)

BnMul(a, b) ==
    IF a = <<>> \/ b = <<>> THEN <<>>
    ELSE BnNorm(BnProp([k \in 1..(Len(a) + Len(b) - 1) |->
                           BnColumn(a, b, k, MaxOf(1, k + 1 - Len(b)))], 1, 0))

RECURSIVE BnDivFrom(_, _, _, _)
BnDivFrom(a, d, k, r) ==
    IF k = 0 THEN [q |-> <<>>, r |-> r]
    ELSE LET v    == r * LimbBase + a[k]
             rest == BnDivFrom(a, d, k - 1, v % d)
         IN  [q |-> rest.q \o <<v \div d>>, r |-> rest.r]

BnDivSmall(a, d) ==
    LET res == BnDivFrom(a, d, Len(a), 0) IN [q |-> BnNorm(res.q), r |-> res.r]

RECURSIVE BitLenNat(_)
BitLenNat(n) == IF n = 0 THEN 0 ELSE 1 + BitLenNat(n \div 2)

BnBitLen(a) ==
    IF a = <<>> THEN 0 ELSE LimbBits * (Len(a) - 1) + BitLenNat(a[Len(a)])

BnShl(a, k) ==
    IF a = <<>> THEN a
    ELSE [i \in 1..(k \div LimbBits) |-> 0] \o BnMulSmall(a, 2 ^ (k % LimbBits))

BnShr(a, k) ==
    IF k \div LimbBits >= Len(a) THEN <<>>
    ELSE BnDivSmall(SubSeq(a, (k \div LimbBits) + 1, Len(a)), 2 ^ (k % LimbBits)).q

BnOdd(a) == a # <<>> /\ a[1] % 2 = 1

(***************************************************************************)
(* Python numbers.  An int is [k |-> "int", v |-> n]; a float is           *)
(* [k |-> "float", neg, m, e] with value (-1)^neg * m * 2^e, where m is    *)
(* either zero (<<>>, e = 0) or has exactly MantBits bits.                 *)
(***************************************************************************)
PyInt(n) == [k |-> "int", v |-> n, neg |-> n < 0, m |-> <<>>, e |-> 0]

Dbl(neg, m, e) == [k |-> "float", v |-> 0, neg |-> neg, m |-> m, e |-> e]

FZero(neg) == Dbl(neg, <<>>, 0)

IsZero(x) == x.m = <<>>

\* Round the exact value (-1)^neg * (big + sticky) * 2^e, 0 <= sticky < 1,
\* to the nearest binary64, ties to even.
RoundToDouble(neg, big, e, sticky) ==
    LET n == BnBitLen(big)
    IN  IF n = 0 THEN FZero(neg)
        ELSE IF n <= MantBits
             THEN Dbl(neg, BnShl(big, MantBits - n), e - (MantBits - n))
        ELSE LET sh    == n - MantBits
                 q     == BnShr(big, sh)
                 half  == BnOdd(BnShr(big, sh - 1))
                 rest  == sticky \/ BnShl(BnShr(big, sh - 1), sh - 1) # big
                 up    == half /\ (rest \/ BnOdd(q))
                 q1    == IF up THEN BnAdd(q, <<1>>) ELSE q
             IN  IF BnBitLen(q1) > MantBits
                 THEN Dbl(neg, BnShr(q1, 1), e + sh + 1)
                 ELSE Dbl(neg, q1, e + sh)

\* float(n) for a Python int n.
FromInt(n) == RoundToDouble(n < 0, BnFromNat(AbsOf(n)), 0, FALSE)

\* The float operand of a mixed int/float operation.
ToFloat(x) == IF x.k = "int" THEN FromInt(x.v) ELSE x

\* x * y on floats.
FMul(x, y) ==
    IF IsZero(x) \/ IsZero(y) THEN FZero(x.neg # y.neg)
    ELSE RoundToDouble(x.neg # y.neg, BnMul(x.m, y.m), x.e + y.e, FALSE)

DivGuardBits == 3 * LimbBits

\* x / n for a float x and a non-zero int n with |n| < LimbBase
\* (float(n) is exact, so this is the IEEE quotient x / float(n)).
FDivInt(x, n) ==
    IF IsZero(x) THEN FZero(x.neg # (n < 0))
    ELSE LET d == BnDivSmall(BnShl(x.m, DivGuardBits), AbsOf(n))
         IN  RoundToDouble(x.neg # (n < 0), d.q, x.e - DivGuardBits, d.r # 0)

\* x + y on floats.
FAdd(x, y) ==
    IF IsZero(x) /\ IsZero(y) THEN FZero(x.neg /\ y.neg)
    ELSE IF IsZero(x) THEN y
    ELSE IF IsZero(y) THEN x
    ELSE LET e  == MinOf(x.e, y.e)
             mx == BnShl(x.m, x.e - e)
             my == BnShl(y.m, y.e - e)
         IN  IF x.neg = y.neg THEN RoundToDouble(x.neg, BnAdd(mx, my), e, FALSE)
             ELSE IF mx = my THEN FZero(FALSE)
             ELSE IF BnLess(mx, my) THEN RoundToDouble(y.neg, BnSub(my, mx), e, FALSE)
             ELSE RoundToDouble(x.neg, BnSub(mx, my), e, FALSE)


(***************************************************************************)
(* Python's arithmetic operators on ints and floats.                       *)
(***************************************************************************)
PyAdd(x, y) ==
    IF x.k = "int" /\ y.k = "int" THEN PyInt(x.v + y.v)
    ELSE FAdd(ToFloat(x), ToFloat(y))

PyMul(x, y) ==
    IF x.k = "int" /\ y.k = "int" THEN PyInt(x.v * y.v)
    ELSE FMul(ToFloat(x), ToFloat(y))

\* x / y with a float x and an int y (the only division the programs do).
PyTrueDiv(x, y) == FDivInt(ToFloat(x), y.v)

PyNeg(x) == PyInt(-x.v)

(***************************************************************************)
(* math.pi, and math.sin / math.cos on the arguments the programs pass:    *)
(* (i+1)*pi/stacks and j*pi*2/slices for slices, stacks <= 6.  The values  *)
(* are those of the C library; note sin(2*pi) # 0 and cos(pi/2) # 0.       *)
(***************************************************************************)
math_pi == Dbl(FALSE, <<3352, 545, 7893, 4675, 1>>, -51)    \* 3.141592653589793

Half == Dbl(FALSE, <<0, 0, 0, 0, 1>>, -53)    \* 0.5

math_sin(x) ==
    CASE x = Dbl(FALSE, <<>>, 0) ->
            Dbl(FALSE, <<>>, 0)    \* math.sin(0.0) = 0.0
      [] x = Dbl(FALSE, <<4965, 363, 5262, 386, 1>>, -53) ->
            Dbl(FALSE, <<8191, 8191, 8191, 8191, 1>>, -54)    \* math.sin(0.5235987755982988) = 0.49999999999999994
      [] x = Dbl(FALSE, <<4320, 5351, 3037, 2102, 1>>, -53) ->
            Dbl(FALSE, <<6750, 938, 2241, 1438, 1>>, -53)    \* math.sin(0.6283185307179586) = 0.5877852522924731
      [] x = Dbl(FALSE, <<3352, 545, 7893, 4675, 1>>, -53) ->
            Dbl(FALSE, <<7116, 5113, 1945, 3393, 1>>, -53)    \* math.sin(0.7853981633974483) = 0.7071067811865475
      [] x = Dbl(FALSE, <<4965, 363, 5262, 386, 1>>, -52) ->
            Dbl(FALSE, <<3242, 706, 7866, 5996, 1>>, -53)    \* math.sin(1.0471975511965976) = 0.8660254037844386
      [] x = Dbl(FALSE, <<4320, 5351, 3037, 2102, 1>>, -52) ->
            Dbl(FALSE, <<5375, 6690, 900, 7390, 1>>, -53)    \* math.sin(1.2566370614359172) = 0.9510565162951535
      [] x = Dbl(FALSE, <<3352, 545, 7893, 4675, 1>>, -52) ->
            Dbl(FALSE, <<0, 0, 0, 0, 1>>, -52)    \* math.sin(1.5707963267948966) = 1.0
      [] x = Dbl(FALSE, <<2384, 3931, 4556, 7249, 1>>, -52) ->
            Dbl(FALSE, <<5376, 6690, 900, 7390, 1>>, -53)    \* math.sin(1.8849555921538759) = 0.9510565162951536
      [] x = Dbl(FALSE, <<4965, 363, 5262, 386, 1>>, -51) ->
            Dbl(FALSE, <<3243, 706, 7866, 5996, 1>>, -53)    \* math.sin(2.0943951023931953) = 0.8660254037844387
      [] x = Dbl(FALSE, <<466, 6553, 7967, 1458, 1>>, -51) ->
            Dbl(FALSE, <<7117, 5113, 1945, 3393, 1>>, -53)    \* math.sin(2.356194490192345) = 0.7071067811865476
      [] x = Dbl(FALSE, <<4320, 5351, 3037, 2102, 1>>, -51) ->
            Dbl(FALSE, <<6751, 938, 2241, 1438, 1>>, -53)    \* math.sin(2.5132741228718345) = 0.5877852522924732
      [] x = Dbl(FALSE, <<4159, 4550, 2481, 2531, 1>>, -51) ->
            Dbl(FALSE, <<8191, 8191, 8191, 8191, 1>>, -54)    \* math.sin(2.6179938779914944) = 0.49999999999999994
      [] x = Dbl(FALSE, <<3352, 545, 7893, 4675, 1>>, -51) ->
            Dbl(FALSE, <<7175, 6306, 2444, 844, 1>>, -105)    \* math.sin(3.141592653589793) = 1.2246467991473532e-16
      [] x = Dbl(FALSE, <<2384, 3931, 4556, 7249, 1>>, -51) ->
            Dbl(TRUE, <<6749, 938, 2241, 1438, 1>>, -53)    \* math.sin(3.7699111843077517) = -0.587785252292473
      [] x = Dbl(FALSE, <<4965, 363, 5262, 386, 1>>, -50) ->
            Dbl(TRUE, <<3240, 706, 7866, 5996, 1>>, -53)    \* math.sin(4.1887902047863905) = -0.8660254037844384
      [] x = Dbl(FALSE, <<466, 6553, 7967, 1458, 1>>, -50) ->
            Dbl(TRUE, <<0, 0, 0, 0, 1>>, -52)    \* math.sin(4.71238898038469) = -1.0
      [] x = Dbl(FALSE, <<4320, 5351, 3037, 2102, 1>>, -50) ->
            Dbl(TRUE, <<5376, 6690, 900, 7390, 1>>, -53)    \* math.sin(5.026548245743669) = -0.9510565162951536
      [] x = Dbl(FALSE, <<4159, 4550, 2481, 2531, 1>>, -50) ->
            Dbl(TRUE, <<3242, 706, 7866, 5996, 1>>, -53)    \* math.sin(5.235987755982989) = -0.8660254037844386
      [] x = Dbl(FALSE, <<3352, 545, 7893, 4675, 1>>, -50) ->
            Dbl(TRUE, <<7175, 6306, 2444, 844, 1>>, -104)    \* math.sin(6.283185307179586) = -2.4492935982947064e-16

math_cos(x) ==
    CASE x = Dbl(FALSE, <<>>, 0) ->
            Dbl(FALSE, <<0, 0, 0, 0, 1>>, -52)    \* math.cos(0.0) = 1.0
      [] x = Dbl(FALSE, <<4965, 363, 5262, 386, 1>>, -53) ->
            Dbl(FALSE, <<3243, 706, 7866, 5996, 1>>, -53)    \* math.cos(0.5235987755982988) = 0.8660254037844387
      [] x = Dbl(FALSE, <<4320, 5351, 3037, 2102, 1>>, -53) ->
            Dbl(FALSE, <<5288, 7359, 7654, 5062, 1>>, -53)    \* math.cos(0.6283185307179586) = 0.8090169943749475
      [] x = Dbl(FALSE, <<3352, 545, 7893, 4675, 1>>, -53) ->
            Dbl(FALSE, <<7117, 5113, 1945, 3393, 1>>, -53)    \* math.cos(0.7853981633974483) = 0.7071067811865476
      [] x = Dbl(FALSE, <<4965, 363, 5262, 386, 1>>, -52) ->
            Dbl(FALSE, <<1, 0, 0, 0, 1>>, -53)    \* math.cos(1.0471975511965976) = 0.5000000000000001
      [] x = Dbl(FALSE, <<4320, 5351, 3037, 2102, 1>>, -52) ->
            Dbl(FALSE, <<2384, 6527, 7117, 1933, 1>>, -54)    \* math.cos(1.2566370614359172) = 0.30901699437494745
      [] x = Dbl(FALSE, <<3352, 545, 7893, 4675, 1>>, -52) ->
            Dbl(FALSE, <<7175, 6306, 2444, 844, 1>>, -106)    \* math.cos(1.5707963267948966) = 6.123233995736766e-17
      [] x = Dbl(FALSE, <<2384, 3931, 4556, 7249, 1>>, -52) ->
            Dbl(TRUE, <<2382, 6527, 7117, 1933, 1>>, -54)    \* math.cos(1.8849555921538759) = -0.30901699437494734
      [] x = Dbl(FALSE, <<4965, 363, 5262, 386, 1>>, -51) ->
            Dbl(TRUE, <<8188, 8191, 8191, 8191, 1>>, -54)    \* math.cos(2.0943951023931953) = -0.4999999999999998
      [] x = Dbl(FALSE, <<466, 6553, 7967, 1458, 1>>, -51) ->
            Dbl(TRUE, <<7116, 5113, 1945, 3393, 1>>, -53)    \* math.cos(2.356194490192345) = -0.7071067811865475
      [] x = Dbl(FALSE, <<4320, 5351, 3037, 2102, 1>>, -51) ->
            Dbl(TRUE, <<5287, 7359, 7654, 5062, 1>>, -53)    \* math.cos(2.5132741228718345) = -0.8090169943749473
      [] x = Dbl(FALSE, <<4159, 4550, 2481, 2531, 1>>, -51) ->
            Dbl(TRUE, <<3243, 706, 7866, 5996, 1>>, -53)    \* math.cos(2.6179938779914944) = -0.8660254037844387
      [] x = Dbl(FALSE, <<3352, 545, 7893, 4675, 1>>, -51) ->
            Dbl(TRUE, <<0, 0, 0, 0, 1>>, -52)    \* math.cos(3.141592653589793) = -1.0
      [] x = Dbl(FALSE, <<2384, 3931, 4556, 7249, 1>>, -51) ->
            Dbl(TRUE, <<5289, 7359, 7654, 5062, 1>>, -53)    \* math.cos(3.7699111843077517) = -0.8090169943749476
      [] x = Dbl(FALSE, <<4965, 363, 5262, 386, 1>>, -50) ->
            Dbl(TRUE, <<4, 0, 0, 0, 1>>, -53)    \* math.cos(4.1887902047863905) = -0.5000000000000004
      [] x = Dbl(FALSE, <<466, 6553, 7967, 1458, 1>>, -50) ->
            Dbl(TRUE, <<2570, 1268, 3667, 5362, 1>>, -105)    \* math.cos(4.71238898038469) = -1.8369701987210297e-16
      [] x = Dbl(FALSE, <<4320, 5351, 3037, 2102, 1>>, -50) ->
            Dbl(FALSE, <<2380, 6527, 7117, 1933, 1>>, -54)    \* math.cos(5.026548245743669) = 0.30901699437494723
      [] x = Dbl(FALSE, <<4159, 4550, 2481, 2531, 1>>, -50) ->
            Dbl(FALSE, <<1, 0, 0, 0, 1>>, -53)    \* math.cos(5.235987755982989) = 0.5000000000000001
      [] x = Dbl(FALSE, <<3352, 545, 7893, 4675, 1>>, -50) ->
            Dbl(FALSE, <<0, 0, 0, 0, 1>>, -52)    \* math.cos(6.283185307179586) = 1.0


(***************************************************************************)
(* Bounds of the model.                                                    *)
(***************************************************************************)
\* Largest digit used as a command-line argument (slices, stacks, radius).
MaxArg == 4

\* Largest number of positional arguments: <slices> <stacks> [<radius>].
MaxArgs == 3

(***************************************************************************)
(* int(s) on a command-line argument, given as its sequence of characters: *)
(* an optional sign followed by one or more decimal digits; anything else  *)
(* raises ValueError (ok = FALSE).                                         *)
(***************************************************************************)
Digits == <<"0", "1", "2", "3", "4", "5", "6", "7", "8", "9">>

IsDigit(c) == \E d \in 1..10 : Digits[d] = c

DigitValue(c) == (CHOOSE d \in 1..10 : Digits[d] = c) - 1

RECURSIVE DecimalValue(_, _)
DecimalValue(cs, acc) ==
    IF cs = <<>> THEN acc
    ELSE DecimalValue(Tail(cs), 10 * acc + DigitValue(Head(cs)))

int(s) ==
    LET signed == s # <<>> /\ s[1] \in {"-", "+"}
        body   == IF signed THEN Tail(s) ELSE s
        ok     == body # <<>> /\ \A k \in 1..Len(body) : IsDigit(body[k])
    IN  IF ~ok THEN [ok |-> FALSE, v |-> 0]
        ELSE [ok |-> TRUE,
              v  |-> IF signed /\ s[1] = "-" THEN -DecimalValue(body, 0)
                     ELSE DecimalValue(body, 0)]

\* A missing argument read as 0 instead of raising IndexError.
ArgInt_MissingIsZero(sys_argv, k) ==
    IF k + 1 > Len(sys_argv) THEN [ok |-> TRUE, v |-> 0] ELSE int(sys_argv[k + 1])

\* sys.argv[k] (k counted from 0): IndexError (ok = FALSE) past the end.
ArgInt(sys_argv, k) ==
    IF k + 1 > Len(sys_argv) THEN [ok |-> FALSE, v |-> 0] ELSE int(sys_argv[k + 1])

\* The argument strings the model draws from.
ArgStrings ==
    {<<"x">>, <<"-", "1">>} \cup {<<Digits[d + 1]>> : d \in 0..MaxArg}

RECURSIVE ArgLists(_)
ArgLists(n) ==
    IF n = 0 THEN {<<>>}
    ELSE {Append(l, a) : l \in ArgLists(n - 1), a \in ArgStrings}

ProgramName == <<"sphere.py">>

CommandLines ==
    {<<ProgramName>> \o l : l \in UNION {ArgLists(n) : n \in 0..MaxArgs}}

UsageMessage(sys_argv) ==
    <<"usage: ">> \o sys_argv[1] \o <<" <slices> <stacks> [<radius>]\n">>

ErrorMessage == <<"error: slices and stacks must be >= 2\n">>

Materials ==
    [default |-> [ambientMap     |-> "sphere-ambient.png",
                  heightMap      |-> "sphere-height.png",
                  normalMap      |-> "sphere-normal.png",
                  reflectionMap  |-> "sphere-reflection.png",
                  shininess      |-> 100]]

(***************************************************************************)
(* State.  Both programs are run on the same command line sys_argv.  The   *)
(* names of the public program are prefixed pub_, those of the res program *)
(* res_; polygon/polygons and mesh are the programs' own names.            *)
(***************************************************************************)
VARIABLES
    sys_argv,
    pub_pc, pub_radius, pub_slices, pub_stacks, pub_centers, polygon, polygons,
    pub_stdout, pub_stderr, pub_exit,
    res_pc, res_radius, res_slices, res_stacks, mesh,
    res_stdout, res_stderr, res_exit

pub_vars ==
    <<pub_pc, pub_radius, pub_slices, pub_stacks, pub_centers, polygon, polygons,
      pub_stdout, pub_stderr, pub_exit>>

res_vars ==
    <<res_pc, res_radius, res_slices, res_stacks, mesh,
      res_stdout, res_stderr, res_exit>>

vars == <<sys_argv, pub_vars, res_vars>>

NoPolygon ==
    [coordinates |-> <<>>, indices |-> <<>>, materialName |-> "",
     normals |-> <<>>, positions |-> <<>>]

NoMesh ==
    [coords |-> <<>>, materialName |-> "", normals |-> <<>>,
     points |-> <<>>, triangles |-> <<>>]

Init ==
    /\ sys_argv \in CommandLines
    /\ pub_pc = "parse" /\ pub_radius = 0 /\ pub_slices = 0 /\ pub_stacks = 0
    /\ pub_centers = <<>> /\ polygon = NoPolygon /\ polygons = <<>>
    /\ pub_stdout = <<>> /\ pub_stderr = <<>> /\ pub_exit = <<>>
    /\ res_pc = "parse" /\ res_radius = 0 /\ res_slices = 0 /\ res_stacks = 0
    /\ mesh = NoMesh
    /\ res_stdout = <<>> /\ res_stderr = <<>> /\ res_exit = <<>>



(***************************************************************************)
(* src/public/model/sphere/sphere.py: sphere(cx, cy, cz, slices, stacks,   *)
(* radius).  The three loops are the recursive operators below; the        *)
(* numbers are Python numbers (cx, cy, cz and radius are ints).            *)
(***************************************************************************)
\* Lines 10-21: the new polygon with the top vertex.
pub_VerticesTop(cx, cy, cz, radius) ==
    [coordinates  |-> <<[u |-> Half, v |-> PyInt(0)]>>,
     indices      |-> <<>>,
     materialName |-> "default",
     normals      |-> <<[x |-> PyInt(0), y |-> PyInt(1), z |-> PyInt(0)]>>,
     positions    |-> <<[x |-> cx, y |-> PyAdd(cy, radius), z |-> cz]>>]

\* The loop body with v = float(i) / stacks.
pub_MiddleVertex_RingFromZero(p, cx, cy, cz, slices, stacks, radius, i, a, j) ==
    LET b == PyTrueDiv(PyMul(PyMul(PyInt(j), math_pi), PyInt(2)), PyInt(slices))
        x == PyMul(math_cos(b), math_sin(a))
        y == math_cos(a)
        z == PyMul(math_sin(b), math_sin(a))
    IN  [p EXCEPT
            !.coordinates = Append(@, [u |-> PyTrueDiv(FromInt(j), PyInt(slices)),
                                       v |-> PyTrueDiv(FromInt(i), PyInt(stacks))]),
            !.normals     = Append(@, [x |-> x, y |-> y, z |-> z]),
            !.positions   = Append(@, [x |-> PyAdd(cx, PyMul(x, radius)),
                                       y |-> PyAdd(cy, PyMul(y, radius)),
                                       z |-> PyAdd(cz, PyMul(z, radius))])]

\* Lines 28-43: the body of the loop over j.
pub_MiddleVertex(p, cx, cy, cz, slices, stacks, radius, i, a, j) ==
    LET b == PyTrueDiv(PyMul(PyMul(PyInt(j), math_pi), PyInt(2)), PyInt(slices))
        x == PyMul(math_cos(b), math_sin(a))
        y == math_cos(a)
        z == PyMul(math_sin(b), math_sin(a))
    IN  [p EXCEPT
            !.coordinates = Append(@, [u |-> PyTrueDiv(FromInt(j), PyInt(slices)),
                                       v |-> PyTrueDiv(FromInt(i + 1), PyInt(stacks))]),
            !.normals     = Append(@, [x |-> x, y |-> y, z |-> z]),
            !.positions   = Append(@, [x |-> PyAdd(cx, PyMul(x, radius)),
                                       y |-> PyAdd(cy, PyMul(y, radius)),
                                       z |-> PyAdd(cz, PyMul(z, radius))])]

\* The loop over j stopping one sample early (no seam vertex).
RECURSIVE pub_MiddleSlices_NoSeam(_, _, _, _, _, _, _, _, _, _)
pub_MiddleSlices_NoSeam(p, cx, cy, cz, slices, stacks, radius, i, a, j) ==
    IF j >= slices THEN p
    ELSE pub_MiddleSlices_NoSeam(
             pub_MiddleVertex(p, cx, cy, cz, slices, stacks, radius, i, a, j),
             cx, cy, cz, slices, stacks, radius, i, a, j + 1)

\* Line 27: for j in range(0, slices + 1).
RECURSIVE pub_MiddleSlices(_, _, _, _, _, _, _, _, _, _)
pub_MiddleSlices(p, cx, cy, cz, slices, stacks, radius, i, a, j) ==
    IF j >= slices + 1 THEN p
    ELSE pub_MiddleSlices(
             pub_MiddleVertex(p, cx, cy, cz, slices, stacks, radius, i, a, j),
             cx, cy, cz, slices, stacks, radius, i, a, j + 1)

\* Lines 24-25: for i in range(0, stacks - 1), a = (i + 1) * math.pi / stacks.
RECURSIVE pub_MiddleStacks(_, _, _, _, _, _, _, _)
pub_MiddleStacks(p, cx, cy, cz, slices, stacks, radius, i) ==
    IF i >= stacks - 1 THEN p
    ELSE LET a == PyTrueDiv(PyMul(PyInt(i + 1), math_pi), PyInt(stacks))
         IN  pub_MiddleStacks(
                 pub_MiddleSlices(p, cx, cy, cz, slices, stacks, radius, i, a, 0),
                 cx, cy, cz, slices, stacks, radius, i + 1)

\* Lines 46-48: the bottom vertex.
pub_VerticesBottom(p, cx, cy, cz, radius) ==
    [p EXCEPT
        !.coordinates = Append(@, [u |-> Half, v |-> PyInt(1)]),
        !.normals     = Append(@, [x |-> PyInt(0), y |-> PyInt(-1), z |-> PyInt(0)]),
        !.positions   = Append(@, [x |-> cx, y |-> PyAdd(cy, PyNeg(radius)), z |-> cz])]

\* The top fan with its first two indices exchanged.
RECURSIVE pub_TopTriangles_Reversed(_, _, _, _, _)
pub_TopTriangles_Reversed(p, slices, fixed, shift, i) ==
    IF i >= slices THEN p
    ELSE pub_TopTriangles_Reversed(
             [p EXCEPT !.indices =
                 Append(@, [x |-> shift + i, y |-> shift + i + 1, z |-> fixed])],
             slices, fixed, shift, i + 1)

\* Lines 54-59: for i in range(0, slices), with fixed = 0 and shift = 1.
RECURSIVE pub_TopTriangles(_, _, _, _, _)
pub_TopTriangles(p, slices, fixed, shift, i) ==
    IF i >= slices THEN p
    ELSE pub_TopTriangles(
             [p EXCEPT !.indices =
                 Append(@, [x |-> shift + i + 1, y |-> shift + i, z |-> fixed])],
             slices, fixed, shift, i + 1)

\* The quads with the second triangle wound the other way.
RECURSIVE pub_QuadSlices_SecondReversed(_, _, _, _)
pub_QuadSlices_SecondReversed(p, slices, i, j) ==
    IF j >= slices THEN p
    ELSE LET shift == 1 + i * (slices + 1)
         IN  pub_QuadSlices_SecondReversed(
                 [p EXCEPT !.indices =
                     @ \o <<[x |-> shift + j,
                             y |-> shift + j + 1,
                             z |-> shift + j + slices + 1],
                            [x |-> shift + j + 1,
                             y |-> shift + j + slices + 1,
                             z |-> shift + j + slices + 2]>>],
                 slices, i, j + 1)

\* Lines 63-75: for j in range(0, slices), two triangles per quad.
RECURSIVE pub_QuadSlices(_, _, _, _)
pub_QuadSlices(p, slices, i, j) ==
    IF j >= slices THEN p
    ELSE LET shift == 1 + i * (slices + 1)
         IN  pub_QuadSlices(
                 [p EXCEPT !.indices =
                     @ \o <<[x |-> shift + j,
                             y |-> shift + j + 1,
                             z |-> shift + j + slices + 1],
                            [x |-> shift + j + slices + 1,
                             y |-> shift + j + 1,
                             z |-> shift + j + slices + 2]>>],
                 slices, i, j + 1)

\* Line 62: for i in range(0, stacks - 2).
RECURSIVE pub_QuadStrips(_, _, _, _)
pub_QuadStrips(p, slices, stacks, i) ==
    IF i >= stacks - 2 THEN p
    ELSE pub_QuadStrips(pub_QuadSlices(p, slices, i, 0), slices, stacks, i + 1)

\* Lines 81-86: for i in range(0, slices).
RECURSIVE pub_BottomTriangles(_, _, _, _, _)
pub_BottomTriangles(p, slices, fixed, shift, i) ==
    IF i >= slices THEN p
    ELSE pub_BottomTriangles(
             [p EXCEPT !.indices =
                 Append(@, [x |-> fixed, y |-> shift + i, z |-> shift + i + 1])],
             slices, fixed, shift, i + 1)

\* itertools.product(xs, ys, zs) as a sequence of triples.
itertools_product(xs, ys, zs) ==
    [k \in 1..(Len(xs) * Len(ys) * Len(zs)) |->
        <<xs[((k - 1) \div (Len(ys) * Len(zs))) + 1],
          ys[(((k - 1) \div Len(zs)) % Len(ys)) + 1],
          zs[((k - 1) % Len(zs)) + 1]>>]

(***************************************************************************)
(* The public program, one action per step of the script.                  *)
(***************************************************************************)
\* Lines 91-102: the try block.  A failed int() or a missing argument ends
\* in the except clause: usage on stderr, sys.exit(0).
pub_ParseArgs ==
    /\ pub_pc = "parse"
    /\ LET r == IF Len(sys_argv) >= 4 THEN ArgInt(sys_argv, 3)
                ELSE [ok |-> TRUE, v |-> 1]
           s == ArgInt(sys_argv, 1)
           t == ArgInt(sys_argv, 2)
       IN  /\ pub_radius' = IF r.ok THEN r.v ELSE pub_radius
           /\ pub_slices' = IF r.ok /\ s.ok THEN s.v ELSE pub_slices
           /\ pub_stacks' = IF r.ok /\ s.ok /\ t.ok THEN t.v ELSE pub_stacks
           /\ IF r.ok /\ s.ok /\ t.ok
              THEN /\ pub_pc' = "validate"
                   /\ UNCHANGED <<pub_stderr, pub_exit>>
              ELSE /\ pub_stderr' = Append(pub_stderr, UsageMessage(sys_argv))
                   /\ pub_exit' = <<0>>
                   /\ pub_pc' = "exited"
    /\ UNCHANGED <<sys_argv, pub_centers, polygon, polygons, pub_stdout, res_vars>>

\* The check with "and" in place of "or".
pub_Validate_And ==
    /\ pub_pc = "validate"
    /\ IF pub_slices < 2 /\ pub_stacks < 2
       THEN /\ pub_stderr' = Append(pub_stderr, ErrorMessage)
            /\ pub_exit' = <<1>>
            /\ pub_pc' = "exited"
            /\ UNCHANGED pub_centers
       ELSE /\ pub_centers' = itertools_product(<<0>>, <<0>>, <<0>>)
            /\ pub_pc' = "polygons"
            /\ UNCHANGED <<pub_stderr, pub_exit>>
    /\ UNCHANGED <<sys_argv, pub_radius, pub_slices, pub_stacks, polygon, polygons,
                   pub_stdout, res_vars>>

\* Lines 104-106, then the start of the list comprehension of line 120-123.
pub_Validate ==
    /\ pub_pc = "validate"
    /\ IF pub_slices < 2 \/ pub_stacks < 2
       THEN /\ pub_stderr' = Append(pub_stderr, ErrorMessage)
            /\ pub_exit' = <<1>>
            /\ pub_pc' = "exited"
            /\ UNCHANGED pub_centers
       ELSE /\ pub_centers' = itertools_product(<<0>>, <<0>>, <<0>>)
            /\ pub_pc' = "polygons"
            /\ UNCHANGED <<pub_stderr, pub_exit>>
    /\ UNCHANGED <<sys_argv, pub_radius, pub_slices, pub_stacks, polygon, polygons,
                   pub_stdout, res_vars>>

pub_cx == PyInt(pub_centers[1][1])

pub_cy == PyInt(pub_centers[1][2])

pub_cz == PyInt(pub_centers[1][3])

pub_Step(from, to, p) ==
    /\ pub_pc = from
    /\ polygon' = p
    /\ pub_pc' = to
    /\ UNCHANGED <<sys_argv, pub_radius, pub_slices, pub_stacks, pub_centers, polygons,
                   pub_stdout, pub_stderr, pub_exit, res_vars>>

\* Line 121: sphere(x, y, z, slices, stacks, radius) is called; lines 10-21.
pub_WriteVerticesTop ==
    /\ pub_centers # <<>>
    /\ pub_Step("polygons", "vertices_middle",
                pub_VerticesTop(pub_cx, pub_cy, pub_cz, PyInt(pub_radius)))

pub_WriteVerticesMiddle ==
    pub_Step("vertices_middle", "vertices_bottom",
             pub_MiddleStacks(polygon, pub_cx, pub_cy, pub_cz,
                              pub_slices, pub_stacks, PyInt(pub_radius), 0))

pub_WriteVerticesBottom ==
    pub_Step("vertices_bottom", "indices_top",
             pub_VerticesBottom(polygon, pub_cx, pub_cy, pub_cz, PyInt(pub_radius)))

pub_WriteIndicesTop ==
    pub_Step("indices_top", "indices_quads",
             pub_TopTriangles(polygon, pub_slices, 0, 1, 0))

pub_WriteIndicesQuads ==
    pub_Step("indices_quads", "indices_bottom",
             pub_QuadStrips(polygon, pub_slices, pub_stacks, 0))

pub_WriteIndicesBottom ==
    pub_Step("indices_bottom", "return",
             pub_BottomTriangles(polygon, pub_slices,
                                 1 + (pub_stacks - 1) * (pub_slices + 1),
                                 1 + (pub_stacks - 2) * (pub_slices + 1), 0))

\* Line 88: return polygon; the comprehension takes it and goes on.
pub_Return ==
    /\ pub_pc = "return"
    /\ polygons' = Append(polygons, polygon)
    /\ pub_centers' = Tail(pub_centers)
    /\ pub_pc' = "polygons"
    /\ UNCHANGED <<sys_argv, pub_radius, pub_slices, pub_stacks, polygon,
                   pub_stdout, pub_stderr, pub_exit, res_vars>>

\* Lines 109-127: json.dump of the document; the script ends (exit code 0).
pub_Dump ==
    /\ pub_pc = "polygons"
    /\ pub_centers = <<>>
    /\ pub_stdout' = Append(pub_stdout, [materials |-> Materials, polygons |-> polygons])
    /\ pub_exit' = <<0>>
    /\ pub_pc' = "exited"
    /\ UNCHANGED <<sys_argv, pub_radius, pub_slices, pub_stacks, pub_centers, polygon,
                   polygons, pub_stderr, res_vars>>

pub_Next ==
    \/ pub_ParseArgs
    \/ pub_Validate
    \/ pub_WriteVerticesTop
    \/ pub_WriteVerticesMiddle
    \/ pub_WriteVerticesBottom
    \/ pub_WriteIndicesTop
    \/ pub_WriteIndicesQuads
    \/ pub_WriteIndicesBottom
    \/ pub_Return
    \/ pub_Dump


(***************************************************************************)
(* src/res/model/sphere.py: the same generator written at the top level of *)
(* the script, without a center.                                           *)
(***************************************************************************)
\* Lines 23-34: the new mesh with the top vertex.
res_VerticesTop(radius) ==
    [coords       |-> <<[u |-> Half, v |-> PyInt(0)]>>,
     materialName |-> "default",
     normals      |-> <<[x |-> PyInt(0), y |-> PyInt(1), z |-> PyInt(0)]>>,
     points       |-> <<[x |-> PyInt(0), y |-> radius, z |-> PyInt(0)]>>,
     triangles    |-> <<>>]

\* Lines 41-49: the body of the loop over j.
res_MiddleVertex(m, slices, stacks, radius, i, a, j) ==
    LET b == PyTrueDiv(PyMul(PyMul(PyInt(j), math_pi), PyInt(2)), PyInt(slices))
        x == PyMul(math_cos(b), math_sin(a))
        y == math_cos(a)
        z == PyMul(math_sin(b), math_sin(a))
    IN  [m EXCEPT
            !.coords  = Append(@, [u |-> PyTrueDiv(FromInt(j), PyInt(slices)),
                                   v |-> PyTrueDiv(FromInt(i + 1), PyInt(stacks))]),
            !.normals = Append(@, [x |-> x, y |-> y, z |-> z]),
            !.points  = Append(@, [x |-> PyMul(x, radius),
                                   y |-> PyMul(y, radius),
                                   z |-> PyMul(z, radius)])]

\* Line 40: for j in range(0, slices + 1).
RECURSIVE res_MiddleSlices(_, _, _, _, _, _, _)
res_MiddleSlices(m, slices, stacks, radius, i, a, j) ==
    IF j >= slices + 1 THEN m
    ELSE res_MiddleSlices(res_MiddleVertex(m, slices, stacks, radius, i, a, j),
                          slices, stacks, radius, i, a, j + 1)

\* Lines 37-38: for i in range(0, stacks - 1), a = (i + 1) * math.pi / stacks.
RECURSIVE res_MiddleStacks(_, _, _, _, _)
res_MiddleStacks(m, slices, stacks, radius, i) ==
    IF i >= stacks - 1 THEN m
    ELSE LET a == PyTrueDiv(PyMul(PyInt(i + 1), math_pi), PyInt(stacks))
         IN  res_MiddleStacks(res_MiddleSlices(m, slices, stacks, radius, i, a, 0),
                              slices, stacks, radius, i + 1)

\* The bottom vertex at y = radius.
res_VerticesBottom_Unnegated(m, radius) ==
    [m EXCEPT
        !.coords  = Append(@, [u |-> Half, v |-> PyInt(1)]),
        !.normals = Append(@, [x |-> PyInt(0), y |-> PyInt(-1), z |-> PyInt(0)]),
        !.points  = Append(@, [x |-> PyInt(0), y |-> radius, z |-> PyInt(0)])]

\* Lines 52-54: the bottom vertex.
res_VerticesBottom(m, radius) ==
    [m EXCEPT
        !.coords  = Append(@, [u |-> Half, v |-> PyInt(1)]),
        !.normals = Append(@, [x |-> PyInt(0), y |-> PyInt(-1), z |-> PyInt(0)]),
        !.points  = Append(@, [x |-> PyInt(0), y |-> PyNeg(radius), z |-> PyInt(0)])]

\* Lines 60-61: for i in range(0, slices), with fixed = 0 and shift = 1.
RECURSIVE res_TopTriangles(_, _, _, _, _)
res_TopTriangles(m, slices, fixed, shift, i) ==
    IF i >= slices THEN m
    ELSE res_TopTriangles(
             [m EXCEPT !.triangles = Append(@, <<shift + i + 1, shift + i, fixed>>)],
             slices, fixed, shift, i + 1)

\* Lines 65-69: for j in range(0, slices), two triangles per quad.
RECURSIVE res_QuadSlices(_, _, _, _)
res_QuadSlices(m, slices, i, j) ==
    IF j >= slices THEN m
    ELSE LET shift == 1 + i * (slices + 1)
         IN  res_QuadSlices(
                 [m EXCEPT !.triangles =
                     @ \o <<<<shift + j, shift + j + 1, shift + j + slices + 1>>,
                            <<shift + j + slices + 1, shift + j + 1,
                              shift + j + slices + 2>>>>],
                 slices, i, j + 1)

\* One strip too many: for i in range(0, stacks - 1).
RECURSIVE res_QuadStrips_ExtraStrip(_, _, _, _)
res_QuadStrips_ExtraStrip(m, slices, stacks, i) ==
    IF i >= stacks - 1 THEN m
    ELSE res_QuadStrips_ExtraStrip(res_QuadSlices(m, slices, i, 0), slices, stacks, i + 1)

\* Line 64: for i in range(0, stacks - 2).
RECURSIVE res_QuadStrips(_, _, _, _)
res_QuadStrips(m, slices, stacks, i) ==
    IF i >= stacks - 2 THEN m
    ELSE res_QuadStrips(res_QuadSlices(m, slices, i, 0), slices, stacks, i + 1)

\* One triangle too many: for i in range(0, slices + 1).
RECURSIVE res_BottomTriangles_ExtraTriangle(_, _, _, _, _)
res_BottomTriangles_ExtraTriangle(m, slices, fixed, shift, i) ==
    IF i >= slices + 1 THEN m
    ELSE res_BottomTriangles_ExtraTriangle(
             [m EXCEPT !.triangles = Append(@, <<fixed, shift + i, shift + i + 1>>)],
             slices, fixed, shift, i + 1)

\* Lines 75-76: for i in range(0, slices).
RECURSIVE res_BottomTriangles(_, _, _, _, _)
res_BottomTriangles(m, slices, fixed, shift, i) ==
    IF i >= slices THEN m
    ELSE res_BottomTriangles(
             [m EXCEPT !.triangles = Append(@, <<fixed, shift + i, shift + i + 1>>)],
             slices, fixed, shift, i + 1)

(***************************************************************************)
(* The res program, one action per step of the script.                     *)
(***************************************************************************)
\* Lines 7-17: the try block.
res_ParseArgs ==
    /\ res_pc = "parse"
    /\ LET r == IF Len(sys_argv) >= 4 THEN ArgInt(sys_argv, 3)
                ELSE [ok |-> TRUE, v |-> 1]
           s == ArgInt(sys_argv, 1)
           t == ArgInt(sys_argv, 2)
       IN  /\ res_radius' = IF r.ok THEN r.v ELSE res_radius
           /\ res_slices' = IF r.ok /\ s.ok THEN s.v ELSE res_slices
           /\ res_stacks' = IF r.ok /\ s.ok /\ t.ok THEN t.v ELSE res_stacks
           /\ IF r.ok /\ s.ok /\ t.ok
              THEN /\ res_pc' = "validate"
                   /\ UNCHANGED <<res_stderr, res_exit>>
              ELSE /\ res_stderr' = Append(res_stderr, UsageMessage(sys_argv))
                   /\ res_exit' = <<0>>
                   /\ res_pc' = "exited"
    /\ UNCHANGED <<sys_argv, mesh, res_stdout, pub_vars>>

\* Lines 19-21.
res_Validate ==
    /\ res_pc = "validate"
    /\ IF res_slices < 2 \/ res_stacks < 2
       THEN /\ res_stderr' = Append(res_stderr, ErrorMessage)
            /\ res_exit' = <<1>>
            /\ res_pc' = "exited"
       ELSE /\ res_pc' = "vertices_top"
            /\ UNCHANGED <<res_stderr, res_exit>>
    /\ UNCHANGED <<sys_argv, res_radius, res_slices, res_stacks, mesh, res_stdout,
                   pub_vars>>

res_Step(from, to, m) ==
    /\ res_pc = from
    /\ mesh' = m
    /\ res_pc' = to
    /\ UNCHANGED <<sys_argv, res_radius, res_slices, res_stacks,
                   res_stdout, res_stderr, res_exit, pub_vars>>

res_WriteVerticesTop ==
    res_Step("vertices_top", "vertices_middle", res_VerticesTop(PyInt(res_radius)))

res_WriteVerticesMiddle ==
    res_Step("vertices_middle", "vertices_bottom",
             res_MiddleStacks(mesh, res_slices, res_stacks, PyInt(res_radius), 0))

res_WriteVerticesBottom ==
    res_Step("vertices_bottom", "faces_top",
             res_VerticesBottom(mesh, PyInt(res_radius)))

res_WriteFacesTop ==
    res_Step("faces_top", "faces_quads", res_TopTriangles(mesh, res_slices, 0, 1, 0))

res_WriteFacesQuads ==
    res_Step("faces_quads", "faces_bottom",
             res_QuadStrips(mesh, res_slices, res_stacks, 0))

res_WriteFacesBottom ==
    res_Step("faces_bottom", "dump",
             res_BottomTriangles(mesh, res_slices,
                                 1 + (res_stacks - 1) * (res_slices + 1),
                                 1 + (res_stacks - 2) * (res_slices + 1), 0))

\* Lines 79-92: json.dump of the document; the script ends (exit code 0).
res_Dump ==
    /\ res_pc = "dump"
    /\ res_stdout' = Append(res_stdout, [materials |-> Materials, meshes |-> <<mesh>>])
    /\ res_exit' = <<0>>
    /\ res_pc' = "exited"
    /\ UNCHANGED <<sys_argv, res_radius, res_slices, res_stacks, mesh, res_stderr,
                   pub_vars>>

res_Next ==
    \/ res_ParseArgs
    \/ res_Validate
    \/ res_WriteVerticesTop
    \/ res_WriteVerticesMiddle
    \/ res_WriteVerticesBottom
    \/ res_WriteFacesTop
    \/ res_WriteFacesQuads
    \/ res_WriteFacesBottom
    \/ res_Dump

Next == pub_Next \/ res_Next

Spec == Init /\ [][Next]_vars


(***************************************************************************)
(* sphere() as a function of its arguments: the body of the public         *)
(* program's sphere, called with a center that need not be the origin.     *)
(***************************************************************************)
SphereCenters == {<<0, 0, 0>>, <<1, -1, 2>>, <<-2, 3, 0>>}

InitSphere ==
    /\ sys_argv = <<ProgramName>>
    /\ pub_pc = "polygons"
    /\ pub_radius \in -1..MaxArg
    /\ pub_slices \in 2..MaxArg
    /\ pub_stacks \in 2..MaxArg
    /\ pub_centers \in {<<c>> : c \in SphereCenters}
    /\ polygon = NoPolygon /\ polygons = <<>>
    /\ pub_stdout = <<>> /\ pub_stderr = <<>> /\ pub_exit = <<>>
    /\ res_pc = "exited" /\ res_radius = 0 /\ res_slices = 0 /\ res_stacks = 0
    /\ mesh = NoMesh
    /\ res_stdout = <<>> /\ res_stderr = <<>> /\ res_exit = <<>>

NextSphere ==
    \/ pub_WriteVerticesTop
    \/ pub_WriteVerticesMiddle
    \/ pub_WriteVerticesBottom
    \/ pub_WriteIndicesTop
    \/ pub_WriteIndicesQuads
    \/ pub_WriteIndicesBottom
    \/ pub_Return

SpecSphere == InitSphere /\ [][NextSphere]_vars

(***************************************************************************)
(* Vocabulary of the properties.                                           *)
(***************************************************************************)
VertexCount(slices, stacks) == 2 + (stacks - 1) * (slices + 1)

TriangleCount(slices, stacks) == 2 * slices * (stacks - 1)

\* The programs have ended, each with a document on its standard output.
PubComplete == pub_pc = "exited" /\ pub_stdout # <<>>

ResComplete == res_pc = "exited" /\ res_stdout # <<>>

Finished == pub_pc = "exited" /\ res_pc = "exited"

\* The vertex loops of sphere() are over (the index loops may be running).
PubVerticesWritten ==
    pub_pc \in {"indices_top", "indices_quads", "indices_bottom", "return"}

ResVerticesWritten ==
    res_pc \in {"faces_top", "faces_quads", "faces_bottom", "dump"}

\* The index triples of a polygon of the public program, as tuples.
IndexTriples(p) ==
    [k \in 1..Len(p.indices) |-> <<p.indices[k].x, p.indices[k].y, p.indices[k].z>>]

\* Python's == on numbers: the values are compared, so 0.0 == -0.0 == 0.
NumEq(x, y) ==
    LET a == ToFloat(x)
        b == ToFloat(y)
    IN  (IsZero(a) /\ IsZero(b)) \/ a = b

VecEq(p, q) == NumEq(p.x, q.x) /\ NumEq(p.y, q.y) /\ NumEq(p.z, q.z)

\* x <= y on floats.
FLeq(x, y) ==
    LET d == FAdd(x, [y EXCEPT !.neg = ~@]) IN IsZero(d) \/ d.neg

\* The command line holds <slices> <stacks> [<radius>], all integers.
ArgsParse ==
    /\ Len(sys_argv) >= 3
    /\ int(sys_argv[2]).ok
    /\ int(sys_argv[3]).ok
    /\ Len(sys_argv) >= 4 => int(sys_argv[4]).ok

ArgSlices == int(sys_argv[2]).v

ArgStacks == int(sys_argv[3]).v


(***************************************************************************)
(* C1.  For slices >= 2 and stacks >= 2 the mesh has exactly               *)
(* 2 + (stacks-1)*(slices+1) vertices, and the three parallel vertex       *)
(* arrays (positions/points, normals, coordinates/coords) all have that    *)
(* length: once the vertex loops are over, and in the document written.    *)
(***************************************************************************)
C1_PubLengths(p) ==
    LET n == VertexCount(pub_slices, pub_stacks)
    IN  Len(p.positions) = n /\ Len(p.normals) = n /\ Len(p.coordinates) = n

C1_ResLengths(m) ==
    LET n == VertexCount(res_slices, res_stacks)
    IN  Len(m.points) = n /\ Len(m.normals) = n /\ Len(m.coords) = n

\* C1: both programs' vertex arrays have length 2 + (stacks-1)*(slices+1).
C1_VertexCount ==
    /\ PubVerticesWritten => C1_PubLengths(polygon)
    /\ PubComplete => \A k \in 1..Len(pub_stdout[1].polygons) :
                          C1_PubLengths(pub_stdout[1].polygons[k])
    /\ ResVerticesWritten => C1_ResLengths(mesh)
    /\ ResComplete => \A k \in 1..Len(res_stdout[1].meshes) :
                          C1_ResLengths(res_stdout[1].meshes[k])

\* Arguments (4, 3): both programs have written a mesh of 12 vertices.
C1_Witness ==
    /\ PubComplete /\ ResComplete
    /\ pub_slices = 4 /\ pub_stacks = 3
    /\ Len(pub_stdout[1].polygons[1].positions) = 12
    /\ Len(res_stdout[1].meshes[1].points) = 12

(***************************************************************************)
(* C2.  The mesh has exactly 2*slices*(stacks-1) triangles: slices top-fan *)
(* triangles (on the top pole and ring 0), then 2*slices*(stacks-2)        *)
(* quad-strip triangles (on no pole), then slices bottom-fan triangles (on *)
(* the bottom pole and the last ring).  For stacks = 2 there is no         *)
(* quad-strip triangle and both fans are on the single middle ring.        *)
(***************************************************************************)
C2_Shape(tris, slices, stacks) ==
    LET n      == VertexCount(slices, stacks)
        quads  == 2 * slices * (stacks - 2)
        last   == 1 + (stacks - 2) * (slices + 1)
    IN  /\ Len(tris) = TriangleCount(slices, stacks)
        /\ \A k \in 1..slices :
              /\ tris[k][3] = 0
              /\ {tris[k][1], tris[k][2]} \subseteq 1..(slices + 1)
        /\ \A k \in (slices + 1)..(slices + quads) :
              {tris[k][1], tris[k][2], tris[k][3]} \subseteq 1..(n - 2)
        /\ \A k \in (slices + quads + 1)..(2 * slices + quads) :
              /\ tris[k][1] = n - 1
              /\ {tris[k][2], tris[k][3]} \subseteq last..(last + slices)
        /\ stacks = 2 => quads = 0 /\ last = 1

\* C2: 2*slices*(stacks-1) triangles: top fan, quad strips, bottom fan.
C2_TriangleCount ==
    /\ pub_pc = "indices_quads" => Len(polygon.indices) = pub_slices
    /\ pub_pc = "indices_bottom" =>
           Len(polygon.indices) = pub_slices + 2 * pub_slices * (pub_stacks - 2)
    /\ PubComplete =>
           C2_Shape(IndexTriples(pub_stdout[1].polygons[1]), pub_slices, pub_stacks)
    /\ res_pc = "faces_quads" => Len(mesh.triangles) = res_slices
    /\ res_pc = "faces_bottom" =>
           Len(mesh.triangles) = res_slices + 2 * res_slices * (res_stacks - 2)
    /\ ResComplete =>
           C2_Shape(res_stdout[1].meshes[1].triangles, res_slices, res_stacks)

\* Arguments (2, 2): 5 vertices and 4 triangles, no quad strip.
C2_Witness ==
    /\ PubComplete /\ ResComplete
    /\ pub_slices = 2 /\ pub_stacks = 2
    /\ Len(pub_stdout[1].polygons[1].positions) = 5
    /\ Len(pub_stdout[1].polygons[1].indices) = 4
    /\ Len(res_stdout[1].meshes[1].triangles) = 4

(***************************************************************************)
(* C3.  Every emitted triangle (top fan, quad strip, bottom fan) has three *)
(* pairwise distinct indices, each >= 0 and below the vertex count         *)
(* 2 + (stacks-1)*(slices+1), which is the length of the vertex arrays.    *)
(***************************************************************************)
C3_Valid(t, n) ==
    /\ t[1] # t[2] /\ t[2] # t[3] /\ t[1] # t[3]
    /\ \A c \in 1..3 : t[c] >= 0 /\ t[c] < n

\* C3: every triangle emitted so far has distinct indices in [0, vertex count).
C3_IndicesInRange ==
    /\ \A k \in 1..Len(polygon.indices) :
          /\ C3_Valid(IndexTriples(polygon)[k], VertexCount(pub_slices, pub_stacks))
          /\ C3_Valid(IndexTriples(polygon)[k], Len(polygon.positions))
    /\ \A k \in 1..Len(mesh.triangles) :
          /\ C3_Valid(mesh.triangles[k], VertexCount(res_slices, res_stacks))
          /\ C3_Valid(mesh.triangles[k], Len(mesh.points))

\* Both programs have emitted all three kinds of triangles.
C3_Witness ==
    /\ PubComplete /\ ResComplete
    /\ pub_slices = 3 /\ pub_stacks = 4
    /\ Len(polygon.indices) = 18 /\ Len(mesh.triangles) = 18

(***************************************************************************)
(* C6.  Usage error: with fewer than 2 positional arguments, or with an    *)
(* argument (slices, stacks or the optional radius) that is no integer,    *)
(* the program writes the usage message to stderr, exits with code 0 and   *)
(* writes nothing to stdout; this comes before the slices/stacks >= 2      *)
(* check (arguments ("1", "x") end as a usage error, not with exit 1).     *)
(***************************************************************************)
\* C6: a missing or non-integer argument ends in usage, exit 0, empty stdout.
C6_UsageError ==
    ~ArgsParse =>
        /\ pub_stdout = <<>> /\ res_stdout = <<>>
        /\ pub_pc \in {"parse", "exited"} /\ res_pc \in {"parse", "exited"}
        /\ pub_pc = "exited" =>
               pub_exit = <<0>> /\ pub_stderr = <<UsageMessage(sys_argv)>>
        /\ res_pc = "exited" =>
               res_exit = <<0>> /\ res_stderr = <<UsageMessage(sys_argv)>>

\* Arguments ("1", "x"): slices < 2, stacks no integer; both ended with usage.
C6_Witness ==
    /\ sys_argv = <<ProgramName, <<"1">>, <<"x">>>>
    /\ Finished
    /\ pub_exit = <<0>> /\ res_exit = <<0>>
    /\ pub_stderr = <<UsageMessage(sys_argv)>>

C4_Param(k, slices, stacks) ==
    IF k = 0 THEN <<0, -1>>
    ELSE IF k = VertexCount(slices, stacks) - 1 THEN <<0, stacks - 1>>
    ELSE <<(k - 1) % (slices + 1), (k - 1) \div (slices + 1)>>

C4_Orientation(t, slices, stacks) ==
    LET A == C4_Param(t[1], slices, stacks)
        B == C4_Param(t[2], slices, stacks)
        C == C4_Param(t[3], slices, stacks)
    IN  (B[1] - A[1]) * (C[2] - A[2]) - (B[2] - A[2]) * (C[1] - A[1])

\* A Python number in hundredths, truncated.
C4_Hundredths(x) ==
    IF x.k = "int" THEN 100 * x.v
    ELSE IF IsZero(x) THEN 0
    ELSE LET n == BnToNat(BnShr(BnMulSmall(x.m, 100), -x.e))
         IN  IF x.neg THEN -n ELSE n

C4_Point(v) == <<C4_Hundredths(v.x), C4_Hundredths(v.y), C4_Hundredths(v.z)>>

\* ((B - A) x (C - A)) . A for the triangle t of the vertices at pos.
C4_Outward(t, pos) ==
    LET A  == C4_Point(pos[t[1] + 1])
        B  == C4_Point(pos[t[2] + 1])
        C  == C4_Point(pos[t[3] + 1])
        u  == <<B[1] - A[1], B[2] - A[2], B[3] - A[3]>>
        v  == <<C[1] - A[1], C[2] - A[2], C[3] - A[3]>>
    IN  (u[2] * v[3] - u[3] * v[2]) * A[1]
        + (u[3] * v[1] - u[1] * v[3]) * A[2]
        + (u[1] * v[2] - u[2] * v[1]) * A[3]

C4_Consistent(tris, pos, slices, stacks, radius) ==
    \A k \in 1..Len(tris) :
        /\ C4_Orientation(tris[k], slices, stacks) = 1
        /\ radius > 0 => C4_Outward(tris[k], pos) >= 0
        /\ (radius > 0 /\ slices >= 3) => C4_Outward(tris[k], pos) > 0

\* C4: every triangle written is wound the same way, outward for radius > 0.
C4_Winding ==
    (Finished /\ PubComplete /\ ResComplete) =>
        /\ C4_Consistent(IndexTriples(pub_stdout[1].polygons[1]),
                         pub_stdout[1].polygons[1].positions,
                         pub_slices, pub_stacks, pub_radius)
        /\ C4_Consistent(res_stdout[1].meshes[1].triangles,
                         res_stdout[1].meshes[1].points,
                         res_slices, res_stacks, res_radius)

\* A sphere of positive radius with fans and quad strips has been written.
C4_Witness ==
    /\ Finished /\ PubComplete /\ ResComplete
    /\ pub_slices = 4 /\ pub_stacks = 3 /\ pub_radius = 2
    /\ C4_Outward(IndexTriples(polygon)[5], polygon.positions) > 0

(***************************************************************************)
(* C5.  Seam: on each middle ring i in [0, stacks-2] the vertices at       *)
(* samples j = 0 and j = slices have identical position and identical      *)
(* normal, u-coordinates 0 and 1, and the same v.  (Equality is Python's   *)
(* ==, so a zero of either sign equals 0.)                                 *)
(***************************************************************************)
C5_Seam(pos, nor, uv, slices, stacks) ==
    \A i \in 0..(stacks - 2) :
        LET first == 1 + i * (slices + 1) + 1
            last  == first + slices
        IN  /\ VecEq(pos[first], pos[last])
            /\ VecEq(nor[first], nor[last])
            /\ NumEq(uv[first].u, PyInt(0))
            /\ NumEq(uv[last].u, PyInt(1))
            /\ NumEq(uv[first].v, uv[last].v)

\* C5: the seam vertices of every ring coincide, with u = 0 and u = 1.
C5_SeamIdentical ==
    /\ PubVerticesWritten =>
           C5_Seam(polygon.positions, polygon.normals, polygon.coordinates,
                   pub_slices, pub_stacks)
    /\ ResVerticesWritten =>
           C5_Seam(mesh.points, mesh.normals, mesh.coords, res_slices, res_stacks)

(***************************************************************************)
(* C8.  The two variants encode the same geometry: for the same arguments  *)
(* (the public variant's center being (0, 0, 0)) they write the same       *)
(* number of vertices and of triangles, equal positions, normals and       *)
(* texture coordinates and equal index triples, in the same order; only    *)
(* the key names and the index encoding differ.  Equality of numbers is    *)
(* Python's ==; for a radius >= 1 the numbers are the same floats and ints *)
(* bit for bit.                                                            *)
(***************************************************************************)
C8_SameVertices(p, m) ==
    /\ Len(p.positions) = Len(m.points)
    /\ Len(p.normals) = Len(m.normals)
    /\ Len(p.coordinates) = Len(m.coords)
    /\ \A k \in 1..Len(p.positions) : VecEq(p.positions[k], m.points[k])
    /\ p.normals = m.normals
    /\ p.coordinates = m.coords

\* C8: the documents of the two variants hold the same geometry.
C8_SameGeometry ==
    (PubComplete /\ ResComplete) =>
        LET p == pub_stdout[1].polygons[1]
            m == res_stdout[1].meshes[1]
        IN  /\ Len(pub_stdout[1].polygons) = Len(res_stdout[1].meshes)
            /\ C8_SameVertices(p, m)
            /\ IndexTriples(p) = m.triangles
            /\ p.materialName = m.materialName
            /\ pub_stdout[1].materials = res_stdout[1].materials
            /\ pub_radius >= 1 => p.positions = m.points

\* Both variants have written the sphere of arguments (3, 3, 2).
C8_Witness ==
    /\ PubComplete /\ ResComplete
    /\ pub_slices = 3 /\ pub_stacks = 3 /\ pub_radius = 2
    /\ Len(pub_stdout[1].polygons[1].positions) = 10
    /\ pub_stdout[1].polygons[1].positions = res_stdout[1].meshes[1].points

(***************************************************************************)
(* C10.  The mesh is closed once each ring's sample j = slices is mapped   *)
(* onto its sample j = 0: every directed edge (a, b) of every triangle     *)
(* occurs exactly once in the triangle list, and its reverse (b, a)        *)
(* exactly once, in another triangle; and every vertex index below the     *)
(* vertex count is used by a triangle.                                     *)
(***************************************************************************)
C10_Weld(k, slices, stacks) ==
    IF k >= 1 /\ k <= VertexCount(slices, stacks) - 2 /\ (k - 1) % (slices + 1) = slices
    THEN k - slices
    ELSE k

C10_Edge(tris, q, c, slices, stacks) ==
    <<C10_Weld(tris[q][c], slices, stacks),
      C10_Weld(tris[q][(c % 3) + 1], slices, stacks)>>

C10_Occurrences(tris, e, slices, stacks) ==
    {<<q, c>> \in (1..Len(tris)) \X (1..3) : C10_Edge(tris, q, c, slices, stacks) = e}

C10_Closed(tris, slices, stacks) ==
    /\ \A q \in 1..Len(tris), c \in 1..3 :
          LET e    == C10_Edge(tris, q, c, slices, stacks)
              same == C10_Occurrences(tris, e, slices, stacks)
              back == C10_Occurrences(tris, <<e[2], e[1]>>, slices, stacks)
          IN  /\ same = {<<q, c>>}
              /\ Cardinality(back) = 1
              /\ \A o \in back : o[1] # q
    /\ \A k \in 0..(VertexCount(slices, stacks) - 1) :
          \E q \in 1..Len(tris), c \in 1..3 : tris[q][c] = k

\* C10 as claimed: the welded mesh is closed for every slices >= 2.
C10_ClosedMesh ==
    (Finished /\ PubComplete /\ ResComplete) =>
        /\ C10_Closed(IndexTriples(pub_stdout[1].polygons[1]), pub_slices, pub_stacks)
        /\ C10_Closed(res_stdout[1].meshes[1].triangles, res_slices, res_stacks)

\* C10 as amended: the welded mesh is closed for every slices >= 3, and every
\* vertex is used by a triangle for every slices >= 2.
C10_ClosedMeshFromThreeSlices ==
    (Finished /\ PubComplete /\ ResComplete) =>
        /\ pub_slices >= 3 =>
              /\ C10_Closed(IndexTriples(pub_stdout[1].polygons[1]),
                            pub_slices, pub_stacks)
              /\ C10_Closed(res_stdout[1].meshes[1].triangles, res_slices, res_stacks)
        /\ \A k \in 0..(VertexCount(pub_slices, pub_stacks) - 1) :
              /\ \E q \in 1..Len(polygon.indices), c \in 1..3 :
                    IndexTriples(polygon)[q][c] = k
              /\ \E q \in 1..Len(mesh.triangles), c \in 1..3 :
                    mesh.triangles[q][c] = k

\* A closed sphere of 3 slices and 3 stacks has been written.
C10_Witness ==
    /\ Finished /\ PubComplete /\ ResComplete
    /\ pub_slices = 3 /\ pub_stacks = 3
    /\ C10_Closed(res_stdout[1].meshes[1].triangles, res_slices, res_stacks)


(***************************************************************************)
(* C9.  Vertex layout of sphere(cx, cy, cz, slices, stacks, radius):       *)
(* index 0 is the top pole, at exactly center + (0, radius, 0), with       *)
(* normal (0, 1, 0) and uv (0.5, 0); the last index                        *)
(* 1 + (stacks-1)*(slices+1) is the bottom pole, at exactly                *)
(* center - (0, radius, 0), with normal (0, -1, 0) and uv (0.5, 1); the    *)
(* vertex of ring i, sample j is at index 1 + i*(slices+1) + j and has     *)
(* uv = (j/slices, (i+1)/stacks); every u and v lies in [0, 1]; and every  *)
(* position is center + normal * radius.                                   *)
(***************************************************************************)
C9_InUnitInterval(x) == FLeq(FromInt(0), ToFloat(x)) /\ FLeq(ToFloat(x), FromInt(1))

C9_Layout(p, c, slices, stacks, radius) ==
    LET n == VertexCount(slices, stacks)
    IN  /\ p.positions[1] = [x |-> PyInt(c[1]), y |-> PyInt(c[2] + radius), z |-> PyInt(c[3])]
        /\ p.normals[1] = [x |-> PyInt(0), y |-> PyInt(1), z |-> PyInt(0)]
        /\ p.coordinates[1] = [u |-> Half, v |-> PyInt(0)]
        /\ p.positions[n] = [x |-> PyInt(c[1]), y |-> PyInt(c[2] - radius), z |-> PyInt(c[3])]
        /\ p.normals[n] = [x |-> PyInt(0), y |-> PyInt(-1), z |-> PyInt(0)]
        /\ p.coordinates[n] = [u |-> Half, v |-> PyInt(1)]
        /\ \A i \in 0..(stacks - 2), j \in 0..slices :
              p.coordinates[1 + i * (slices + 1) + j + 1] =
                  [u |-> FDivInt(FromInt(j), slices), v |-> FDivInt(FromInt(i + 1), stacks)]
        /\ \A k \in 1..n :
              /\ C9_InUnitInterval(p.coordinates[k].u)
              /\ C9_InUnitInterval(p.coordinates[k].v)
              /\ p.positions[k].x = PyAdd(PyInt(c[1]), PyMul(p.normals[k].x, PyInt(radius)))
              /\ p.positions[k].y = PyAdd(PyInt(c[2]), PyMul(p.normals[k].y, PyInt(radius)))
              /\ p.positions[k].z = PyAdd(PyInt(c[3]), PyMul(p.normals[k].z, PyInt(radius)))

\* C9: poles, ring vertices and uv are laid out as stated, for any center.
C9_VertexLayout ==
    PubVerticesWritten =>
        C9_Layout(polygon, pub_centers[1], pub_slices, pub_stacks, pub_radius)

\* sphere(1, -1, 2, 4, 3, 2) is about to return its 12 vertices.
C9_Witness ==
    /\ pub_pc = "return"
    /\ pub_centers = <<<<1, -1, 2>>>>
    /\ pub_slices = 4 /\ pub_stacks = 3 /\ pub_radius = 2
    /\ Len(polygon.positions) = 12
    /\ polygon.positions[1].y = PyInt(1)

=============================================================================
